---- MODULE Spec2Model ----
(***************************************************************************)
(* The Huum sauna client (custom_components/huum/huum.py) and the remote   *)
(* control API it talks to.                                                *)
(*                                                                         *)
(* The client is asyncio code: a coroutine runs without interruption from  *)
(* one await to the next.  Every action of a caller below is one such      *)
(* segment: the request the coroutine is suspended on is answered by the   *)
(* remote service, and the coroutine then runs up to its next request or   *)
(* to its return.  Between two segments of one call, the device's          *)
(* surroundings may act, and so may every other user of the device: the    *)
(* client keeps no state between calls (only its session and credentials), *)
(* so another call on the same client, like another client of the same     *)
(* account, is seen only through the requests it sends to the service.     *)
(*                                                                         *)
(* Spec is the client with its direct callers.  AdapterSpec is the         *)
(* integration: the HuumDevice entity of climate.py, set up by             *)
(* __init__.async_setup_entry, calls the client from its event handlers.   *)
(***************************************************************************)
EXTENDS Integers, Sequences, FiniteSets, TLC

\* ------------------------------------------------- program constants
min_temp == 40
max_temp == 110

OFFLINE == 230
ONLINE_HEATING == 231
ONLINE_NOT_HEATING == 232
LOCKED == 233
EMERGENCY_STOP == 400

SaunaStatus == {OFFLINE, ONLINE_HEATING, ONLINE_NOT_HEATING, LOCKED, EMERGENCY_STOP}

\* ------------------------------------------------------------- inputs
\* The callers whose calls are followed request by request.
Callers == {1}
\* Temperatures a caller passes: both edges of range(min_temp, max_temp),
\* inside and outside.
Temperatures == {min_temp - 1, min_temp, max_temp - 1, max_temp}
\* Target temperatures a device can have configured (none: the empty set).
Targets == {{}} \cup {{t} : t \in {min_temp, max_temp - 1}}

\* What the transport gets back for one request: no connection at all, or
\* an HTTP answer with a status code; a 200 answer whose body is not the
\* status JSON object has wellFormed = FALSE.
Answers ==
    {[connected |-> TRUE, http |-> 200, wellFormed |-> TRUE],
     [connected |-> TRUE, http |-> 200, wellFormed |-> FALSE],
     [connected |-> TRUE, http |-> 401, wellFormed |-> FALSE],
     [connected |-> TRUE, http |-> 403, wellFormed |-> FALSE],
     [connected |-> TRUE, http |-> 500, wellFormed |-> FALSE],
     [connected |-> FALSE, http |-> 0, wellFormed |-> FALSE]}

VARIABLES
    devStatus,        \* the device's state, a SaunaStatus code
    devDoor,          \* TRUE when the sauna door is closed
    devTarget,        \* the target temperature configured on the device
    pc,               \* per caller: where its coroutine is suspended
    op,               \* per caller: the client method it called
    args,             \* per caller: the arguments it passed to that method
    temperature,      \* per caller: argument of turn_on
    safety_override,  \* per caller: argument of turn_on
    reqs,             \* per caller: the requests its current call has issued
    resps,            \* per caller: the responses its current call has parsed
    result,           \* per caller: what its current call returned or raised
    changed,          \* per caller: a request of its current call changed the device
    last,             \* per caller: the answer to its current call's last request,
                      \* and the device as the service left it on answering
    prevTurnOff,      \* per caller, in turn_off: summary of its preceding call's result
                      \* when that call was turn_off too
    auth,             \* the client's self.auth: empty while no client exists
    construction,     \* the arguments and the outcome of the last Huum(...)
    entity            \* the HuumDevice of climate.py and the event it handles

vars == <<devStatus, devDoor, devTarget, pc, op, args, temperature, safety_override,
          reqs, resps, result, changed, last, prevTurnOff,
          auth, construction, entity>>

devVars == <<devStatus, devDoor, devTarget>>

\* The callers' calls.
callVars == <<pc, op, args, temperature, safety_override,
              reqs, resps, result, changed, last, prevTurnOff>>

\* The client object.
clientVars == <<auth, construction>>

\* ------------------------------------------------------ the requests
StatusRequestAsStop == [method |-> "POST", path |-> "stop"]

StatusRequest == [method |-> "GET", path |-> "status"]

StartRequestMinTemp(t) ==
    [method |-> "POST", path |-> "start", json |-> [targetTemperature |-> min_temp]]

StartRequest(t) ==
    [method |-> "POST", path |-> "start", json |-> [targetTemperature |-> t]]

StopRequestAsStart == StartRequest(min_temp)

StopRequest == [method |-> "POST", path |-> "stop"]

\* ------------------------------------------------- the remote service
\* The device after the service has carried out an accepted request.
DeviceAfter(req) ==
    IF req.path = "start" /\ devStatus \in {ONLINE_NOT_HEATING, ONLINE_HEATING}
    THEN [status |-> ONLINE_HEATING, target |-> {req.json.targetTemperature}]
    ELSE IF req.path = "stop" /\ devStatus = ONLINE_HEATING
    THEN [status |-> ONLINE_NOT_HEATING, target |-> devTarget]
    ELSE [status |-> devStatus, target |-> devTarget]

\* The status JSON object the service answers with. targetTemperature is
\* left out by the status endpoint unless the device is heating, and left
\* out by every endpoint when the device has none configured.
StatusJson(req, dev) ==
    LET core == [status |-> dev.status, door |-> devDoor]
        withTarget ==
            /\ dev.target # {}
            /\ (req.path = "status" => dev.status = ONLINE_HEATING)
    IN IF withTarget
       THEN [status |-> dev.status, door |-> devDoor,
             targetTemperature |-> CHOOSE t \in dev.target : TRUE]
       ELSE core

\* The body of an answer that is not the status JSON object.
ErrorJson == [error |-> "unexpected"]

\* A request is carried out only when it reaches the service and is
\* answered 200.
Accepted(ans) == ans.connected /\ ans.http = 200

Serve(req, ans) ==
    LET dev == IF Accepted(ans) THEN DeviceAfter(req)
               ELSE [status |-> devStatus, target |-> devTarget]
    IN [dev |-> dev,
        body |-> IF Accepted(ans) /\ ans.wellFormed
                 THEN StatusJson(req, dev) ELSE ErrorJson]

\* --------------------------------------------------------- the client
\* aiohttp with raise_for_status=True: the exception, if any, that the
\* awaited session.get / session.post raises.
RaiseForStatusNever(ans) == [kind |-> "none"]

RaiseForStatus(ans) ==
    IF ~ans.connected THEN [kind |-> "ClientConnectionError"]
    ELSE IF ans.http >= 400 THEN [kind |-> "ClientResponseError", status |-> ans.http]
    ELSE [kind |-> "none"]

\* HuumStatusResponse(**json_data): the schema's required fields are status
\* and door; targetTemperature is optional (absent: the empty set).
HuumStatusResponse(json) ==
    IF {"status", "door"} \subseteq DOMAIN json
    THEN [kind |-> "ok",
          value |-> [status |-> json.status,
                     door_closed |-> json.door,
                     target_temperature |->
                         IF "targetTemperature" \in DOMAIN json
                         THEN {json.targetTemperature} ELSE {}]]
    ELSE [kind |-> "ValidationError"]

\* One request and the parse of its answer, as status(), turn_on() and
\* turn_off() all do it: what the method returns or raises.
Fetch(req, ans) ==
    LET exc == RaiseForStatus(ans)
    IN IF exc.kind # "none" THEN exc ELSE HuumStatusResponse(Serve(req, ans).body)

\* The arguments (temperature, safety_override) of a call; the methods
\* without arguments are given (min_temp, False).
Arguments(t, so) == [temperature |-> t, safety_override |-> so]

Pending == [kind |-> "pending"]
NoExchange == [ans |-> [connected |-> FALSE, http |-> 0, wellFormed |-> FALSE],
               dev |-> [status |-> OFFLINE, target |-> {}]]
NoTurnOff == [kind |-> "none"]

\* What a later call is compared with: the kind of a result and, of a
\* response, its status.
Summary(r) ==
    IF r.kind = "ok" THEN [kind |-> "ok", status |-> r.value.status]
    ELSE [kind |-> r.kind]

IsError(r) == r.kind \notin {"ok", "pending", "none"}

\* temperature not in range(self.min_temp, self.max_temp)
OutOfRangeInclusiveMax(t) == ~(min_temp <= t /\ t <= max_temp)

OutOfRange(t) == ~(min_temp <= t /\ t < max_temp)

\* _check_door: not status.door_closed
DoorOpenIgnored(status) == FALSE

DoorOpen(status) == ~status.door_closed

\* turn_on: if not safety_override
ChecksDoorAlways(so) == TRUE

ChecksDoor(so) == ~so

\* status_from_status_or_stop: status_response.status == SaunaStatus.ONLINE_NOT_HEATING
NeedsStopNever(status_response) == FALSE

NeedsStopUnlessHeating(status_response) == status_response.status # ONLINE_HEATING

NeedsStop(status_response) == status_response.status = ONLINE_NOT_HEATING

\* What a method does with the outcome r of the status() it awaited: the
\* label of its next request, or "done" with what it returns or raises.
\* An exception of status() leaves the awaiting method at once.

\* _check_door, and turn_on after it.
AfterCheckDoorSwallowing(r) ==
    IF r.kind = "ok" /\ DoorOpen(r.value)
    THEN [next |-> "done", result |-> [kind |-> "SafetyException"]]
    ELSE [next |-> "start", result |-> Pending]

AfterCheckDoor(r) ==
    IF r.kind # "ok" THEN [next |-> "done", result |-> r]
    ELSE IF DoorOpen(r.value)
    THEN [next |-> "done", result |-> [kind |-> "SafetyException"]]
    ELSE [next |-> "start", result |-> Pending]

\* status_from_status_or_stop.
AfterStatus(r) ==
    IF r.kind # "ok" THEN [next |-> "done", result |-> r]
    ELSE IF NeedsStop(r.value) THEN [next |-> "turn_off", result |-> Pending]
    ELSE [next |-> "done", result |-> r]

\* ------------------------------------------------------ Huum.__init__
\* The Optional[str] values a username or a password is given as: None
\* (the empty set), the empty string and a string with characters.
Credentials == {{}, {""}, {"sauna"}}

\* not x, for an Optional[str] x.
Falsy(x) == x = {} \/ x = {""}

NoCredentialsBoth(username, password) == Falsy(username) /\ Falsy(password)

\* if not username or not password
NoCredentials(username, password) == Falsy(username) \/ Falsy(password)

\* aiohttp.BasicAuth(username, password)
BasicAuth(username, password) == [login |-> username, password |-> password]

NoConstruction == [username |-> {}, password |-> {}, result |-> "none"]

\* Huum(username, password): raises ValueError and leaves no object, or
\* sets self.auth.
Construct(username, password) ==
    /\ construction' = [username |-> username, password |-> password,
                        result |-> IF NoCredentials(username, password)
                                   THEN "ValueError" ELSE "ok"]
    /\ auth' = IF NoCredentials(username, password)
               THEN {} ELSE {BasicAuth(username, password)}

\* --------------------------------------------- HuumDevice (climate.py)
\* The status an entity holds before it is given one.
NoStatus == [status |-> OFFLINE, door_closed |-> TRUE, target_temperature |-> {}]

attr_target_temperature == 40

\* No entity yet: async_setup_entry of climate.py has not run.
NoEntity ==
    [exists |-> FALSE, status |-> NoStatus,
     target_temperature |-> attr_target_temperature,
     event |-> [name |-> "none"], raised |-> "none"]

\* The entity as the host hands it the event ev; raised is what the
\* handler raises to the host.
Event(e, ev) == [e EXCEPT !.event = ev, !.raised = "none"]

\* The hvac_mode property.
hvac_mode(e) == IF e.status.status = ONLINE_HEATING THEN "heat" ELSE "off"

\* The target_temperature property: self._status.target_temperature or
\* self._target_temperature.
target_temperature(e) ==
    IF e.status.target_temperature \notin {{}, {0}}
    THEN CHOOSE t \in e.status.target_temperature : TRUE
    ELSE e.target_temperature

SwallowedValueErrorOnly(kind) == kind \in {"ValueError", "ValidationError"}

\* except (ValueError, SafetyException) in _turn_on; pydantic's
\* ValidationError is a ValueError.
Swallowed(kind) == kind \in {"ValueError", "SafetyException", "ValidationError"}

\* The handler handed the raised exception r: the entity with what goes
\* up to the host.
Raised(e, r) == [e EXCEPT !.raised = r.kind]

\* The entity after the client call its handler awaits has returned or
\* raised r: the rest of the handler.
Returned(e, r) ==
    CASE e.event.name = "async_setup_entry" ->
            IF r.kind = "ok"
            THEN [e EXCEPT !.exists = TRUE, !.status = r.value]
            ELSE [e EXCEPT !.raised = "ConfigEntryNotReady"]
      [] e.event.name = "async_update" ->
            IF r.kind = "ok" THEN [e EXCEPT !.status = r.value] ELSE Raised(e, r)
      [] e.event.name = "async_set_temperature" ->
            IF r.kind = "ok" \/ Swallowed(r.kind) THEN e ELSE Raised(e, r)
      [] e.event.name = "async_set_hvac_mode" ->
            IF r.kind = "ok" \/ (e.event.hvac_mode = "heat" /\ Swallowed(r.kind))
            THEN e ELSE Raised(e, r)
      [] OTHER -> e

\* ---------------------------------------------------------------- Init
Init ==
    /\ devStatus \in SaunaStatus
    /\ devDoor \in BOOLEAN
    /\ devTarget \in Targets
    /\ pc = [p \in Callers |-> "idle"]
    /\ op = [p \in Callers |-> "none"]
    /\ args = [p \in Callers |-> Arguments(min_temp, FALSE)]
    /\ temperature = [p \in Callers |-> min_temp]
    /\ safety_override = [p \in Callers |-> FALSE]
    /\ reqs = [p \in Callers |-> <<>>]
    /\ resps = [p \in Callers |-> <<>>]
    /\ result = [p \in Callers |-> Pending]
    /\ changed = [p \in Callers |-> FALSE]
    /\ last = [p \in Callers |-> NoExchange]
    /\ prevTurnOff = [p \in Callers |-> NoTurnOff]
    /\ auth = {}
    /\ construction = NoConstruction
    /\ entity = NoEntity

\* ------------------------------------------------------------ helpers
\* A caller may start a call when it is in no call: before its first one,
\* or after the preceding one has returned or raised.
Free(p) == pc[p] \in {"idle", "done"}

\* Bookkeeping at the start of a call by caller p of method m with the
\* arguments a, which enters turn_on, if it does, with t and so.
BeginCall(p, m, a, t, so) ==
    /\ Free(p)
    /\ op' = [op EXCEPT ![p] = m]
    /\ args' = [args EXCEPT ![p] = a]
    /\ temperature' = [temperature EXCEPT ![p] = t]
    /\ safety_override' = [safety_override EXCEPT ![p] = so]
    /\ reqs' = [reqs EXCEPT ![p] = <<>>]
    /\ resps' = [resps EXCEPT ![p] = <<>>]
    /\ changed' = [changed EXCEPT ![p] = FALSE]
    /\ last' = [last EXCEPT ![p] = NoExchange]
    /\ prevTurnOff' = [prevTurnOff EXCEPT ![p] =
                          IF m = "turn_off" /\ op[p] = "turn_off"
                          THEN Summary(result[p]) ELSE NoTurnOff]
    /\ UNCHANGED devVars

\* The same for a method of the client called directly, on a client that
\* exists.
Begin(p, m, t, so) ==
    /\ auth # {}
    /\ BeginCall(p, m, Arguments(t, so), t, so)
    /\ UNCHANGED clientVars

\* The device and the caller's logs after its request req was answered ans
\* and parsed to r.
Exchange(p, req, ans, r) ==
    LET dev == Serve(req, ans).dev
    IN /\ devStatus' = dev.status
       /\ devTarget' = dev.target
       /\ devDoor' = devDoor
       /\ reqs' = [reqs EXCEPT ![p] = Append(@, req)]
       /\ resps' = [resps EXCEPT ![p] = IF r.kind = "ok" THEN Append(@, r.value) ELSE @]
       /\ changed' = [changed EXCEPT ![p] =
                         @ \/ dev.status # devStatus \/ dev.target # devTarget]
       /\ last' = [last EXCEPT ![p] = [ans |-> ans, dev |-> dev]]
       /\ UNCHANGED <<op, args, temperature, safety_override, prevTurnOff, clientVars>>

\* The call returns or raises r, to the handler of the entity e if one
\* awaits it.
FinishWith(p, r, e) ==
    /\ pc' = [pc EXCEPT ![p] = "done"]
    /\ result' = [result EXCEPT ![p] = r]
    /\ entity' = Returned(e, r)

\* The call returns or raises r.
Finish(p, r) == FinishWith(p, r, entity)

\* The call goes on as c says.
Continue(p, c) ==
    /\ pc' = [pc EXCEPT ![p] = c.next]
    /\ result' = [result EXCEPT ![p] = c.result]
    /\ entity' = IF c.next = "done" THEN Returned(entity, c.result) ELSE entity

\* --------------------------------------------------- Huum.__init__
\* A client is constructed for the device, again after a failure.
Huum__init__ ==
    /\ auth = {}
    /\ \E username \in Credentials, password \in Credentials :
          Construct(username, password)
    /\ UNCHANGED <<devVars, callVars, entity>>

\* --------------------------------------------------- Huum.status
CallStatus(p) ==
    /\ Begin(p, "status", min_temp, FALSE)
    /\ pc' = [pc EXCEPT ![p] = "status"]
    /\ result' = [result EXCEPT ![p] = Pending]
    /\ UNCHANGED entity

status(p) ==
    /\ pc[p] = "status"
    /\ \E ans \in Answers :
          LET r == Fetch(StatusRequest, ans)
          IN /\ Exchange(p, StatusRequest, ans, r)
             /\ Finish(p, r)

\* --------------------------------------------------- Huum.turn_on
\* The entry of turn_on(t, so): the range test, then the first await.
\* e is the entity as the calling handler, if one, has left it.
EnterTurnOnWith(p, t, so, e) ==
    IF OutOfRange(t)
    THEN FinishWith(p, [kind |-> "ValueError"], e)
    ELSE /\ pc' = [pc EXCEPT ![p] = IF ChecksDoor(so) THEN "check_door" ELSE "start"]
         /\ result' = [result EXCEPT ![p] = Pending]
         /\ entity' = e

EnterTurnOn(p, t, so) == EnterTurnOnWith(p, t, so, entity)

CallTurnOn(p) ==
    \E t \in Temperatures, so \in BOOLEAN :
       /\ Begin(p, "turn_on", t, so)
       /\ EnterTurnOn(p, t, so)

\* await self._check_door(): the status request, and the door test on its
\* response; an exception of either ends turn_on.
check_door(p) ==
    /\ pc[p] = "check_door"
    /\ \E ans \in Answers :
          LET r == Fetch(StatusRequest, ans)
          IN /\ Exchange(p, StatusRequest, ans, r)
             /\ Continue(p, AfterCheckDoor(r))

\* A start that looks at the door once more, with the service, as it posts.
startUnlessDoorOpen(p) ==
    /\ pc[p] = "start"
    /\ \E ans \in Answers :
          LET req == IF devDoor \/ safety_override[p]
                     THEN StartRequest(temperature[p]) ELSE StatusRequest
              r == Fetch(req, ans)
          IN /\ Exchange(p, req, ans, r)
             /\ Finish(p, IF r.kind = "ok" /\ req = StatusRequest
                          THEN [kind |-> "SafetyException"] ELSE r)

\* The POST to start and the parse of its response.
start(p) ==
    /\ pc[p] = "start"
    /\ \E ans \in Answers :
          LET req == StartRequest(temperature[p])
              r == Fetch(req, ans)
          IN /\ Exchange(p, req, ans, r)
             /\ Finish(p, r)

\* --------------------------------------------- Huum.set_temperature
\* return await self.turn_on(temperature, safety_override): the arguments
\* turn_on is entered with.
ForwardedWithoutOverride(a) == Arguments(a.temperature, FALSE)

Forwarded(a) == Arguments(a.temperature, a.safety_override)

\* set_temperature runs turn_on in its own coroutine: check_door and start
\* are its further steps, and what turn_on returns or raises is what
\* set_temperature returns or raises.
CallSetTemperature(p) ==
    \E t \in Temperatures, so \in BOOLEAN :
       LET a == Arguments(t, so)
           f == Forwarded(a)
       IN /\ auth # {}
          /\ BeginCall(p, "set_temperature", a, f.temperature, f.safety_override)
          /\ UNCHANGED clientVars
          /\ EnterTurnOn(p, f.temperature, f.safety_override)

\* --------------------------------------------------- Huum.turn_off
CallTurnOff(p) ==
    /\ Begin(p, "turn_off", min_temp, FALSE)
    /\ pc' = [pc EXCEPT ![p] = "turn_off"]
    /\ result' = [result EXCEPT ![p] = Pending]
    /\ UNCHANGED entity

\* The POST to stop and the parse of its response; also the turn_off()
\* that status_from_status_or_stop awaits.
turn_off(p) ==
    /\ pc[p] = "turn_off"
    /\ \E ans \in Answers :
          LET r == Fetch(StopRequest, ans)
          IN /\ Exchange(p, StopRequest, ans, r)
             /\ Finish(p, r)

\* --------------------------------- Huum.status_from_status_or_stop
CallStatusFromStatusOrStop(p) ==
    /\ Begin(p, "status_from_status_or_stop", min_temp, FALSE)
    /\ pc' = [pc EXCEPT ![p] = "status_or_stop"]
    /\ result' = [result EXCEPT ![p] = Pending]
    /\ UNCHANGED entity

status_from_status_or_stop(p) ==
    /\ pc[p] = "status_or_stop"
    /\ \E ans \in Answers :
          LET r == Fetch(StatusRequest, ans)
          IN /\ Exchange(p, StatusRequest, ans, r)
             /\ Continue(p, AfterStatus(r))

\* ------------------------------------------- the device's surroundings
\* Somebody opens or closes the door.
DoorMoves ==
    /\ devDoor' = ~devDoor
    /\ UNCHANGED <<devStatus, devTarget, callVars, clientVars, entity>>

\* The observed device states: Offline -> OnlineNotHeating -> OnlineHeating
\* -> OnlineNotHeating (the heat cycle ends by itself), Locked and
\* EmergencyStop from a heating state, cleared from outside.
DeviceMoves ==
    /\ devStatus' \in
          CASE devStatus = OFFLINE -> {ONLINE_NOT_HEATING}
            [] devStatus = ONLINE_NOT_HEATING -> {OFFLINE}
            [] devStatus = ONLINE_HEATING ->
                   {ONLINE_NOT_HEATING, OFFLINE, LOCKED, EMERGENCY_STOP}
            [] OTHER -> {ONLINE_NOT_HEATING}
    /\ UNCHANGED <<devDoor, devTarget, callVars, clientVars, entity>>

\* A start or stop request of another call (turn_on with a temperature in
\* range, turn_off, or the stop of status_from_status_or_stop), or of
\* another client, is carried out by the service.
OtherRequest ==
    /\ \E req \in {StopRequest} \cup
                  {StartRequest(t) : t \in {u \in Temperatures : ~OutOfRange(u)}} :
          /\ devStatus' = DeviceAfter(req).status
          /\ devTarget' = DeviceAfter(req).target
    /\ UNCHANGED <<devDoor, callVars, clientVars, entity>>

Next ==
    \/ Huum__init__
    \/ \E p \in Callers : CallStatus(p)
    \/ \E p \in Callers : status(p)
    \/ \E p \in Callers : CallTurnOn(p)
    \/ \E p \in Callers : check_door(p)
    \/ \E p \in Callers : start(p)
    \/ \E p \in Callers : CallSetTemperature(p)
    \/ \E p \in Callers : CallTurnOff(p)
    \/ \E p \in Callers : turn_off(p)
    \/ \E p \in Callers : CallStatusFromStatusOrStop(p)
    \/ \E p \in Callers : status_from_status_or_stop(p)
    \/ DoorMoves
    \/ DeviceMoves
    \/ OtherRequest

Spec == Init /\ [][Next]_vars

\* ------------------------------------------- the entity (climate.py)
\* A handler that calls no method of the client, or none that gets as far
\* as a request: it is over in one step and leaves the entity as e.
NoCall(p, e) ==
    /\ BeginCall(p, "none", Arguments(min_temp, FALSE), min_temp, FALSE)
    /\ pc' = [pc EXCEPT ![p] = "done"]
    /\ result' = [result EXCEPT ![p] = [kind |-> "none"]]
    /\ entity' = e

\* A handler awaits the method m of the client, suspended at its request.
Await(p, m, at, e) ==
    /\ BeginCall(p, m, Arguments(min_temp, FALSE), min_temp, FALSE)
    /\ pc' = [pc EXCEPT ![p] = at]
    /\ result' = [result EXCEPT ![p] = Pending]
    /\ entity' = e

\* __init__.async_setup_entry: the client is constructed from the entry's
\* credentials and asked for the reconciled status; climate's
\* async_setup_entry makes the entity of that status when it arrives
\* (Returned).  The host sets the entry up again after a failure.
async_setup_entry(p) ==
    /\ ~entity.exists
    /\ Free(p)
    /\ \E username \in Credentials, password \in Credentials :
          LET e == Event(entity, [name |-> "async_setup_entry"])
          IN /\ Construct(username, password)
             /\ IF NoCredentials(username, password)
                THEN NoCall(p, [e EXCEPT !.raised = "ValueError"])
                ELSE Await(p, "status_from_status_or_stop", "status_or_stop", e)

\* HuumDevice._turn_on(temperature): turn_on(temperature), without override.
HuumDevice_turn_on(p, t, e) ==
    /\ BeginCall(p, "turn_on", Arguments(t, FALSE), t, FALSE)
    /\ EnterTurnOnWith(p, t, FALSE, e)

\* HuumDevice.async_set_temperature(**kwargs): the temperature of the
\* event may be missing.  The event keeps the status the entity held when
\* it arrived.
async_set_temperature(p) ==
    /\ entity.exists
    /\ Free(p)
    /\ UNCHANGED clientVars
    /\ \E o \in {{}} \cup {{t} : t \in Temperatures} :
          LET e0 == Event(entity, [name |-> "async_set_temperature", temperature |-> o,
                                   statusBefore |-> entity.status])
          IN IF o = {}
             THEN NoCall(p, e0)
             ELSE LET t == CHOOSE x \in o : TRUE
                      e1 == [e0 EXCEPT !.target_temperature = t]
                  IN IF hvac_mode(e1) = "heat"
                     THEN HuumDevice_turn_on(p, t, e1)
                     ELSE NoCall(p, e1)

Max(a, b) == IF a >= b THEN a ELSE b

attr_min_temp == 40

\* HuumDevice.async_set_hvac_mode(hvac_mode), with the modes of
\* _attr_hvac_modes.
async_set_hvac_mode(p) ==
    /\ entity.exists
    /\ Free(p)
    /\ UNCHANGED clientVars
    /\ \E mode \in {"heat", "off"} :
          LET e == Event(entity, [name |-> "async_set_hvac_mode", hvac_mode |-> mode])
          IN IF mode = "heat"
             THEN HuumDevice_turn_on(p, Max(attr_min_temp, target_temperature(entity)), e)
             ELSE Await(p, "turn_off", "turn_off", e)

\* HuumDevice.async_update
async_update(p) ==
    /\ entity.exists
    /\ Free(p)
    /\ UNCHANGED clientVars
    /\ Await(p, "status_from_status_or_stop", "status_or_stop",
             Event(entity, [name |-> "async_update"]))

AdapterNext ==
    \/ \E p \in Callers : async_setup_entry(p)
    \/ \E p \in Callers : async_set_temperature(p)
    \/ \E p \in Callers : async_set_hvac_mode(p)
    \/ \E p \in Callers : async_update(p)
    \/ \E p \in Callers : check_door(p)
    \/ \E p \in Callers : start(p)
    \/ \E p \in Callers : turn_off(p)
    \/ \E p \in Callers : status_from_status_or_stop(p)
    \/ DoorMoves
    \/ DeviceMoves

\* The integration as the host runs it: the entity is the client's only
\* caller and the account's only user, one handler after the other; the
\* device changes by its door, by itself and by the entity's requests.
AdapterSpec == Init /\ [][AdapterNext]_vars

TypeOK ==
    /\ devStatus \in SaunaStatus
    /\ devDoor \in BOOLEAN
    /\ devTarget \in Targets
    /\ \A p \in Callers :
          /\ pc[p] \in {"idle", "status", "check_door", "start", "turn_off",
                        "status_or_stop", "done"}
          /\ Len(reqs[p]) <= 2
          /\ Len(resps[p]) <= Len(reqs[p])
          /\ pc[p] \notin {"idle", "done"} => auth # {}
    /\ auth \subseteq {BasicAuth(u, pw) : u \in Credentials, pw \in Credentials}
    /\ construction.result \in {"none", "ok", "ValueError"}
    /\ auth # {} <=> construction.result = "ok"
    /\ entity.exists => auth # {}

\* ------------------------------------------------------------ claims
Done(p) == pc[p] = "done"

\* The requests as they go over the wire.
GetStatus == [method |-> "GET", path |-> "status"]
PostStop == [method |-> "POST", path |-> "stop"]
PostStart(t) ==
    [method |-> "POST", path |-> "start", json |-> [targetTemperature |-> t]]

\* The call's status check was answered, and what it reported.
DoorReported(p, closed) ==
    /\ op[p] = "turn_on"
    /\ ~safety_override[p]
    /\ Len(resps[p]) >= 1
    /\ resps[p][1].door_closed = closed

\* C1: a finished turn_on(t) with 40 <= t < 110 has issued, without safety
\* override and with a status check that reported the door closed, exactly
\* the status request and then the start request carrying t; with safety
\* override exactly the start request carrying t and no status request.
C1_TurnOnRequests ==
    \A p \in Callers :
       (Done(p) /\ op[p] = "turn_on" /\ 40 <= temperature[p] /\ temperature[p] < 110) =>
          /\ safety_override[p] => reqs[p] = <<PostStart(temperature[p])>>
          /\ DoorReported(p, TRUE) =>
                reqs[p] = <<GetStatus, PostStart(temperature[p])>>

C1_Witness ==
    \E p \in Callers :
       /\ Done(p) /\ op[p] = "turn_on" /\ temperature[p] = 109
       /\ DoorReported(p, TRUE)
       /\ reqs[p] = <<GetStatus, PostStart(109)>>
       /\ result[p].kind = "ok"

\* C2: turn_on(t) with t < 40 or t >= 110 raises ValueError and issues no
\* request, whatever safety_override and the door are.
C2_OutOfRangeRejected ==
    \A p \in Callers :
       (op[p] = "turn_on" /\ (temperature[p] < 40 \/ temperature[p] >= 110)) =>
          /\ Done(p)
          /\ result[p] = [kind |-> "ValueError"]
          /\ reqs[p] = <<>>
          /\ ~changed[p]

C2_Witness ==
    \E p \in Callers :
       /\ Done(p) /\ op[p] = "turn_on" /\ temperature[p] = 110
       /\ safety_override[p] /\ ~devDoor
       /\ result[p].kind = "ValueError" /\ reqs[p] = <<>>

\* C3: turn_on without safety override whose status check reported the
\* door open raises SafetyException, has issued the status request only (no
\* start request), and has not changed the device.
C3_DoorOpenRefused ==
    \A p \in Callers :
       DoorReported(p, FALSE) =>
          /\ Done(p)
          /\ result[p] = [kind |-> "SafetyException"]
          /\ reqs[p] = <<GetStatus>>
          /\ ~changed[p]

C3_Witness ==
    \E p \in Callers :
       /\ Done(p) /\ DoorReported(p, FALSE)
       /\ resps[p][1].status = ONLINE_NOT_HEATING
       /\ result[p].kind = "SafetyException"

\* The call's Status() was answered, and the status it reported.
StatusReported(p) ==
    IF op[p] = "status_from_status_or_stop" /\ Len(resps[p]) >= 1
    THEN {resps[p][1].status} ELSE {}

\* C4: a finished status_from_status_or_stop whose Status() reported
\* OnlineNotHeating has issued exactly one more request, the stop request,
\* and what it returns is the response to that stop request.
C4_StopWhenNotHeating ==
    \A p \in Callers :
       (Done(p) /\ StatusReported(p) = {232}) =>
          /\ reqs[p] = <<GetStatus, PostStop>>
          /\ result[p].kind = "ok" =>
                Len(resps[p]) = 2 /\ result[p].value = resps[p][2]

C4_Witness ==
    \E p \in Callers :
       /\ Done(p) /\ StatusReported(p) = {232}
       /\ result[p].kind = "ok"
       /\ result[p].value # resps[p][1]
       /\ result[p].value.target_temperature = {109}

ReconciledWithTarget(p) ==
    /\ Done(p) /\ op[p] = "status_from_status_or_stop"
    /\ result[p].kind = "ok"
    /\ last[p].dev.target # {}

C7_StopNeverInterruptsHeating ==
    \A p \in Callers :
       op[p] = "status_from_status_or_stop" => ~changed[p]

\* C8: a finished turn_off has issued exactly one request, the stop request,
\* and a response it returns reports a status other than OnlineHeating; so
\* does the response of the turn_off the caller made just before it.
C8_TurnOffIdempotent ==
    \A p \in Callers :
       (Done(p) /\ op[p] = "turn_off") =>
          /\ reqs[p] = <<PostStop>>
          /\ result[p].kind = "ok" => result[p].value.status # 231
          /\ prevTurnOff[p].kind = "ok" => prevTurnOff[p].status # 231
          /\ (last[p].ans = [connected |-> TRUE, http |-> 200, wellFormed |-> TRUE])
                => result[p].kind = "ok"

C8_Witness ==
    \E p \in Callers :
       /\ Done(p) /\ op[p] = "turn_off"
       /\ prevTurnOff[p] = [kind |-> "ok", status |-> 232]
       /\ result[p].kind = "ok" /\ result[p].value.status = 232
       /\ ~changed[p]

\* The call's last request was answered with HTTP status code c.
AnsweredWith(p, c) ==
    /\ Done(p) /\ reqs[p] # <<>>
    /\ last[p].ans.connected /\ last[p].ans.http = c

C10_NoRetryAfterFailure ==
    \A p \in Callers :
       Len(resps[p]) < Len(reqs[p]) =>
          /\ Done(p)
          /\ Len(reqs[p]) = Len(resps[p]) + 1
          /\ result[p].kind \in
                {"ClientResponseError", "ClientConnectionError", "ValidationError"}
          /\ ~(last[p].ans.connected /\ last[p].ans.http = 200 /\ last[p].ans.wellFormed)

C10_Witness ==
    \E p \in Callers :
       /\ Done(p) /\ op[p] = "turn_on" /\ ~safety_override[p]
       /\ reqs[p] = <<GetStatus>> /\ resps[p] = <<>>
       /\ result[p] = [kind |-> "ClientConnectionError"]
       /\ devDoor /\ devStatus = ONLINE_NOT_HEATING

\* What the call returns or raises once its last request is answered: the
\* response parsed from a well-formed 200 answer, an error otherwise.
ReturnsLastExchange(p) ==
    IF last[p].ans = [connected |-> TRUE, http |-> 200, wellFormed |-> TRUE]
    THEN /\ Len(resps[p]) = Len(reqs[p])
         /\ result[p] = [kind |-> "ok", value |-> resps[p][Len(resps[p])]]
    ELSE /\ Len(resps[p]) = Len(reqs[p]) - 1
         /\ result[p].kind \in
               {"ClientResponseError", "ClientConnectionError", "ValidationError"}

\* The course of a call turn_on(t, so), at every point of it: its requests
\* so far, where it stands, and what it returns or raises.
TurnOnRun(p, t, so) ==
    IF t < 40 \/ t >= 110
    THEN Done(p) /\ reqs[p] = <<>> /\ result[p] = [kind |-> "ValueError"]
    ELSE IF so
    THEN \/ pc[p] = "start" /\ reqs[p] = <<>> /\ result[p].kind = "pending"
         \/ Done(p) /\ reqs[p] = <<PostStart(t)>> /\ ReturnsLastExchange(p)
    ELSE \/ pc[p] = "check_door" /\ reqs[p] = <<>> /\ result[p].kind = "pending"
         \/ /\ Done(p) /\ reqs[p] = <<GetStatus>> /\ resps[p] = <<>>
            /\ ReturnsLastExchange(p)
         \/ /\ Done(p) /\ reqs[p] = <<GetStatus>> /\ Len(resps[p]) = 1
            /\ ~resps[p][1].door_closed
            /\ result[p] = [kind |-> "SafetyException"]
         \/ /\ pc[p] = "start" /\ reqs[p] = <<GetStatus>> /\ Len(resps[p]) = 1
            /\ resps[p][1].door_closed
            /\ result[p].kind = "pending"
         \/ /\ Done(p) /\ reqs[p] = <<GetStatus, PostStart(t)>>
            /\ Len(resps[p]) >= 1 /\ resps[p][1].door_closed
            /\ ReturnsLastExchange(p)

\* C11: set_temperature(t, so) takes, request by request and to its result
\* or error, the course of turn_on(t, so): under every behaviour of the
\* service and of the device, a call of either is at every point in one of
\* the states of that one course.
C11_SetTemperatureIsTurnOn ==
    \A p \in Callers :
       /\ op[p] = "turn_on" => TurnOnRun(p, temperature[p], safety_override[p])
       /\ op[p] = "set_temperature" =>
             TurnOnRun(p, args[p].temperature, args[p].safety_override)

C11_Witness ==
    \E p \in Callers :
       /\ Done(p) /\ op[p] = "set_temperature"
       /\ args[p] = [temperature |-> 109, safety_override |-> TRUE]
       /\ reqs[p] = <<PostStart(109)>>
       /\ result[p].kind = "ok" /\ result[p].value.status = 231
       /\ result[p].value.target_temperature = {109}
       /\ ~result[p].value.door_closed
       /\ changed[p]

\* C12: a status() call issues one request, the GET of the status endpoint,
\* and none to start or stop; no request of it changes the device, and the
\* client's credentials stay those it was constructed with.
C12_StatusReadOnly ==
    \A p \in Callers :
       op[p] = "status" =>
          /\ ~changed[p]
          /\ \/ pc[p] = "status" /\ reqs[p] = <<>>
             \/ Done(p) /\ reqs[p] = <<GetStatus>>
          /\ auth = {[login |-> {"sauna"}, password |-> {"sauna"}]}

C12_Witness ==
    \E p \in Callers :
       /\ Done(p) /\ op[p] = "status"
       /\ result[p].kind = "ok"
       /\ result[p].value.status = 231 /\ devStatus = 231
       /\ result[p].value.target_temperature = {109}

\* C14: a turn_on whose status check reported the door closed never raises
\* SafetyException and ends having issued the status request and then the
\* start request, and no second status request, also when the door is open
\* as the start request is carried out.
C14_NoRecheckBeforeStart ==
    \A p \in Callers :
       DoorReported(p, TRUE) =>
          /\ result[p].kind # "SafetyException"
          /\ \/ pc[p] = "start" /\ reqs[p] = <<GetStatus>>
             \/ Done(p) /\ reqs[p] = <<GetStatus, PostStart(temperature[p])>>

\* The door was open when the start request was carried out: the start
\* response says so, and the device is heating at the given temperature.
C14_Witness ==
    \E p \in Callers :
       /\ Done(p) /\ DoorReported(p, TRUE)
       /\ reqs[p] = <<GetStatus, PostStart(40)>>
       /\ resps[p][1].status = 232
       /\ result[p].kind = "ok"
       /\ ~result[p].value.door_closed
       /\ result[p].value.status = 231
       /\ result[p].value.target_temperature = {40}

\* C15: turn_on with safety_override and a temperature in range issues no
\* status request and never raises SafetyException; it ends having issued
\* the start request, whatever the door.
C15_OverrideSkipsDoorCheck ==
    \A p \in Callers :
       (op[p] = "turn_on" /\ safety_override[p]
           /\ 40 <= temperature[p] /\ temperature[p] < 110) =>
          /\ result[p].kind # "SafetyException"
          /\ \A i \in 1..Len(reqs[p]) : reqs[p][i] # GetStatus
          /\ resps[p] # <<>> => Done(p)
          /\ Done(p) => reqs[p] = <<PostStart(temperature[p])>>

C15_Witness ==
    \E p \in Callers :
       /\ Done(p) /\ op[p] = "turn_on" /\ safety_override[p]
       /\ ~devDoor
       /\ reqs[p] = <<PostStart(109)>>
       /\ result[p].kind = "ok"
       /\ ~result[p].value.door_closed
       /\ result[p].value.status = 231

\* C13: after Huum(username, password) with a username or a password that
\* is None or empty, the construction has raised ValueError, there is no
\* client, and no call has been made and no request issued.
C13_NoClientWithoutCredentials ==
    (/\ construction.result # "none"
     /\ \/ construction.username \in {{}, {""}}
        \/ construction.password \in {{}, {""}}) =>
       /\ construction.result = "ValueError"
       /\ auth = {}
       /\ \A p \in Callers : pc[p] = "idle" /\ op[p] = "none" /\ reqs[p] = <<>>

C13_Witness ==
    /\ construction = [username |-> {"sauna"}, password |-> {""},
                       result |-> "ValueError"]
    /\ auth = {}

\* The entity handles a set-temperature event with the value t.
SetTemperatureEvent(t) ==
    /\ entity.event.name = "async_set_temperature"
    /\ entity.event.temperature = {t}

\* C16: while or after the entity handles a set-temperature event with a
\* value below 40 or from 110 on, or one in HEAT mode whose status check
\* reported the door open, no start request has been issued, nothing is
\* raised to the host, the entity's status is the one it held before the
\* event, and its target temperature is the event's value.
C16_SetTemperatureFailureSwallowed ==
    \A p \in Callers : \A t \in 39..110 :
       (/\ SetTemperatureEvent(t)
        /\ \/ t < 40
           \/ t >= 110
           \/ /\ entity.event.statusBefore.status = 231
              /\ Len(resps[p]) >= 1
              /\ ~resps[p][1].door_closed) =>
          /\ \A i \in 1..Len(reqs[p]) : reqs[p][i].path # "start"
          /\ Done(p)
          /\ entity.raised = "none"
          /\ entity.status = entity.event.statusBefore
          /\ entity.target_temperature = t
          /\ entity.exists

\* The advertised maximum, 110, in HEAT mode: turn_on was called and raised
\* ValueError without a request; the host sees no error.
C16_Witness ==
    \E p \in Callers :
       /\ SetTemperatureEvent(110)
       /\ entity.status.status = 231
       /\ Done(p) /\ op[p] = "turn_on" /\ temperature[p] = 110
       /\ result[p] = [kind |-> "ValueError"]
       /\ reqs[p] = <<>>
       /\ entity.raised = "none"
       /\ entity.target_temperature = 110

\* The open door in HEAT mode: turn_on raised SafetyException after its
\* status request; the host sees no error.
C16_DoorOpenSwallowed ==
    \E p \in Callers :
       /\ SetTemperatureEvent(109)
       /\ entity.status.status = 231
       /\ Done(p) /\ result[p] = [kind |-> "SafetyException"]
       /\ reqs[p] = <<GetStatus>>
       /\ entity.raised = "none"
       /\ entity.target_temperature = 109
====
